---- MODULE Spec2Model ----
(***************************************************************************)
(* Model of bjornify's dual-backend playback dispatcher                    *)
(* (src/bjornify/bjornify.py): the Sonos device classifier                 *)
(* find_playing_speaker, the credential refresh refresh_spotify_token, the *)
(* dispatcher spotify_action_with_soco_fallback behind the pause and skip  *)
(* commands, and the enqueue path player_add_track.                        *)
(*                                                                         *)
(* External collaborators (the Spotify Web API client, the OAuth manager,  *)
(* SoCo discovery and the speakers) are the environment: each call to one  *)
(* of them has its outcome chosen nondeterministically from the outcomes   *)
(* the library can produce (a return value, or an exception).              *)
(***************************************************************************)
EXTENDS Integers, Sequences, FiniteSets, TLC

(***************************************************************************)
(* Bounds of the model.                                                    *)
(***************************************************************************)
\* speakers in one discovery, for the classifier on its own
MaxSpeakers == 2
\* speakers in one discovery made by a pause/skip call
MaxFallbackSpeakers == 1
\* devices listed by GET /me/player/devices
MaxDevices == 2
\* commands handled in one run
MaxCalls == 2

\* the millisecond counters formatted run up to MaxMinutes minutes and 59.999 s
MaxMinutes == 3

(***************************************************************************)
(* Strings.  A URI or a metadata blob is a sequence of tokens; the tokens  *)
(* are the three literals the classifier looks for.  The literal           *)
(* "spotify:" is a substring of "x-sonos-spotify:", which Contains keeps.  *)
(***************************************************************************)
NativeTag == "x-sonos-spotify:"
VliTag    == "x-sonos-vli:"
CloudRef  == "spotify:"

\* Python's `needle in text`
Contains(text, needle) ==
    \E i \in 1..Len(text) :
        \/ text[i] = needle
        \/ needle = CloudRef /\ text[i] = NativeTag

\* Python's text.startswith(prefix)
StartsWith(text, prefix) == Len(text) > 0 /\ text[1] = prefix

Uris ==
    { <<>>,
      <<NativeTag>>,
      <<VliTag, CloudRef>>,
      <<VliTag>>,
      <<CloudRef, VliTag>> }

Metadatas == { <<>>, <<NativeTag>> }

(***************************************************************************)
(* A speaker as the classifier sees it during one scan: the outcome of     *)
(* get_current_transport_info ("ERR" when the query raises), the outcome   *)
(* of get_current_track_info (ERR when it raises) and whether reading      *)
(* player_name, itself a device query, returns (TRUE) or raises (FALSE).   *)
(* The outcome of each kind of query on one speaker is fixed for one scan. *)
(***************************************************************************)
ERR == [err |-> TRUE]

TransportStates == {"PLAYING", "PAUSED_PLAYBACK", "ERR"}

TrackInfos == [uri : Uris, metadata : Metadatas] \cup {ERR}

Speakers == [state : TransportStates, info : TrackInfos, name : BOOLEAN]

RECURSIVE SeqsUpTo(_, _)
SeqsUpTo(S, n) ==
    IF n = 0 THEN { <<>> }
    ELSE LET shorter == SeqsUpTo(S, n - 1)
         IN  shorter \cup { Append(s, x) : s \in { t \in shorter : Len(t) = n - 1 }, x \in S }

\* what soco.discover() can produce: it raises, or it returns the speakers
\* (None and the empty set are both the empty sequence: `not speakers`)
Discoveries ==
    {[ok |-> FALSE, speakers |-> <<>>]}
        \cup { [ok |-> TRUE, speakers |-> s] : s \in SeqsUpTo(Speakers, MaxSpeakers) }

(***************************************************************************)
(* find_playing_speaker.  The result is a record: kind "found" with the    *)
(* index of the returned speaker, kind "none" for None, kind "raise" when  *)
(* an exception leaves the function; examined is the set of indices whose  *)
(* transport state was queried.                                            *)
(***************************************************************************)
UriMatch(uri) == Contains(uri, NativeTag)

VliMatch(uri) == StartsWith(uri, VliTag) /\ Contains(uri, CloudRef)

MetadataMatch(metadata) == Contains(metadata, NativeTag)

Found(i, seen)  == [kind |-> "found", idx |-> i, examined |-> seen]
NoneFound(seen) == [kind |-> "none",  idx |-> 0, examined |-> seen]
Raised(seen)    == [kind |-> "raise", idx |-> 0, examined |-> seen]

\* the except handlers: logging reads speaker.player_name, outside any try
HandlerLogs(sp) == sp.name

\* CheckSpeaker without the test of the transport state
CheckSpeakerAnyState(sp) ==
    IF sp.state = "ERR"
    THEN IF HandlerLogs(sp) THEN "next" ELSE "raise"
    ELSE IF sp.info = ERR
    THEN IF HandlerLogs(sp) THEN "next" ELSE "raise"
    ELSE IF ~sp.name
    THEN IF HandlerLogs(sp) THEN "next" ELSE "raise"
    ELSE IF UriMatch(sp.info.uri) THEN "return"
    ELSE IF VliMatch(sp.info.uri) THEN "return"
    ELSE IF MetadataMatch(sp.info.metadata) THEN "return"
    ELSE "next"

\* one iteration of the for loop on speaker sp: "return", "next" or "raise"
CheckSpeaker(sp) ==
    IF sp.state = "ERR"
    THEN IF HandlerLogs(sp) THEN "next" ELSE "raise"
    ELSE IF sp.state # "PLAYING"
    THEN "next"
    ELSE IF sp.info = ERR
    THEN IF HandlerLogs(sp) THEN "next" ELSE "raise"
    ELSE IF ~sp.name
    THEN \* the debug log in the try raises, and so does the handler's
         IF HandlerLogs(sp) THEN "next" ELSE "raise"
    ELSE IF UriMatch(sp.info.uri) THEN "return"
    ELSE IF VliMatch(sp.info.uri) THEN "return"
    ELSE IF MetadataMatch(sp.info.metadata) THEN "return"
    ELSE "next"

RECURSIVE ScanFrom(_, _, _)
ScanFrom(speakers, i, seen) ==
    IF i > Len(speakers)
    THEN NoneFound(seen)
    ELSE LET step == CheckSpeaker(speakers[i])
             now  == seen \cup {i}
         IN  CASE step = "return" -> Found(i, now)
               [] step = "raise"  -> Raised(now)
               [] OTHER           -> ScanFrom(speakers, i + 1, now)

find_playing_speaker(discovery) ==
    IF ~discovery.ok THEN Raised({})
    ELSE IF discovery.speakers = <<>> THEN NoneFound({})
    ELSE ScanFrom(discovery.speakers, 1, {})

(***************************************************************************)
(* Outcomes of a call to a collaborator: a returned value, a               *)
(* spotipy.exceptions.SpotifyException carrying http_status, or any other  *)
(* exception (a connection error, an OAuth error), which carries none.     *)
(***************************************************************************)
Unauthorized == 401
Forbidden    == 403

OtherStatuses == {404, 500}

Returns(v) == [exc |-> "none", http_status |-> 0, val |-> v]

SpotifyException(status) ==
    [exc |-> "SpotifyException", http_status |-> status, val |-> "none"]

OtherException == [exc |-> "Exception", http_status |-> 0, val |-> "none"]

Exceptions ==
    { SpotifyException(s) : s \in {Unauthorized, Forbidden} \cup OtherStatuses }
        \cup {OtherException}

\* spotify.current_playback(): a playback object, None, or an exception
PlaybackOutcomes == {Returns("playback"), Returns("None")} \cup Exceptions

\* spotify.next_track(), spotify.pause_playback(), spotify.add_to_queue(uri),
\* spotify.start_playback(...), speaker.next(), speaker.pause()
ActionOutcomes == {Returns("ok")} \cup Exceptions

\* auth_manager.refresh_access_token(...)
ExchangeOutcomes == {Returns("ok"), OtherException}

Event(op, out) == [op |-> op, out |-> out]

\* how often the collaborator call op appears in a call's log
RECURSIVE Count(_, _)
Count(log, op) ==
    IF log = <<>> THEN 0
    ELSE (IF Head(log).op = op THEN 1 ELSE 0) + Count(Tail(log), op)

(***************************************************************************)
(* State.  Shared by all calls: the module global `spotify` (the client    *)
(* handle, a number naming the spotipy.Spotify object it is bound to) and  *)
(* the OAuth manager's cached token.  Per call: where it is (pc), what it  *)
(* was asked to do (kind), the client handle its spotify_action is bound   *)
(* to (action), what soco.discover() gave it (discovered), the speaker the  *)
(* classifier returned (playing_speaker),                                  *)
(* the argument soco_action received (socoArg), the value it returned      *)
(* (response; "raised" when an exception left the function) and the        *)
(* collaborator calls it made, in order (log).  clock holds the two        *)
(* millisecond counters last formatted for display and the text made.      *)
(* Per call again: what the command handler sent to the user (message).    *)
(***************************************************************************)
VARIABLES spotify, token, started, pc, kind, action, discovered,
          playing_speaker, socoArg, device_id, response, log,
          scanInput, scanOutput, scanDone, clock, message

callVars ==
    <<pc, kind, action, discovered, playing_speaker, socoArg, device_id, response, log,
      message>>

scanVars == <<scanInput, scanOutput, scanDone>>

vars == <<spotify, token, started, callVars, scanVars, clock>>

\* the worker threads that run commands; Spec runs its commands one after
\* the other, on the first
Calls == {1, 2}

NoDiscovery == [ok |-> TRUE, speakers |-> <<>>]

Success == "OK"
Failure == "FAIL"

\* what get_now_playing_embed returns: the kind of embed, or None
RemoteSnapshot == "Remote"
LocalSnapshot  == "Local"
NothingFound   == "None"

NoSpeaker == [idx |-> 0, speaker |-> [state |-> "ERR", info |-> ERR, name |-> FALSE]]

NoToken == [cached |-> FALSE, access |-> 0, expired |-> FALSE]

Tokens == [cached : {TRUE}, access : {0}, expired : BOOLEAN] \cup {NoToken}

FallbackDiscoveries ==
    {[ok |-> FALSE, speakers |-> <<>>]}
        \cup { [ok |-> TRUE, speakers |-> s] : s \in SeqsUpTo(Speakers, MaxFallbackSpeakers) }

ClockIdle == [progress_ms |-> 0, duration_ms |-> 0, text |-> <<>>]

ScanIdle ==
    /\ scanInput = [ok |-> TRUE, speakers |-> <<>>]
    /\ scanOutput = NoneFound({})
    /\ scanDone = FALSE

Init ==
    /\ spotify = 0
    /\ token \in Tokens
    /\ started = 0
    /\ pc = [c \in Calls |-> "idle"]
    /\ kind = [c \in Calls |-> "none"]
    /\ action = [c \in Calls |-> 0]
    /\ discovered = [c \in Calls |-> NoDiscovery]
    /\ playing_speaker = [c \in Calls |-> NoSpeaker]
    /\ socoArg = [c \in Calls |-> NoSpeaker]
    /\ device_id = [c \in Calls |-> "None"]
    /\ response = [c \in Calls |-> "pending"]
    /\ log = [c \in Calls |-> <<>>]
    /\ message = [c \in Calls |-> "none"]
    /\ ScanIdle
    /\ clock = ClockIdle

\* a call ends: it returns value, or an exception leaves it ("raised")
Ends(c, value) ==
    /\ pc' = [pc EXCEPT ![c] = "done"]
    /\ response' = [response EXCEPT ![c] = value]

Goes(c, label) ==
    /\ pc' = [pc EXCEPT ![c] = label]
    /\ UNCHANGED response

Logs(c, op, out) == log' = [log EXCEPT ![c] = Append(@, Event(op, out))]

\* PlayerCommand with the speaker of the previous command kept
PlayerCommandKeepsSpeaker(c, k) ==
    /\ pc[c] = "idle"
    /\ started < MaxCalls
    /\ started' = started + 1
    /\ kind' = [kind EXCEPT ![c] = k]
    /\ action' = [action EXCEPT ![c] = spotify]
    /\ log' = [log EXCEPT ![c] = <<>>]
    /\ discovered' = [discovered EXCEPT ![c] = NoDiscovery]
    /\ socoArg' = [socoArg EXCEPT ![c] = NoSpeaker]
    /\ device_id' = [device_id EXCEPT ![c] = "None"]
    /\ pc' = [pc EXCEPT ![c] = "current_playback"]
    /\ response' = [response EXCEPT ![c] = "pending"]
    /\ message' = [message EXCEPT ![c] = "none"]
    /\ UNCHANGED <<spotify, token, playing_speaker, scanVars, clock>>

(***************************************************************************)
(* player_pause_playback / player_skip_to_next: the command handler's      *)
(* worker evaluates spotify.pause_playback or spotify.next_track, a method *)
(* bound to the object `spotify` names now, and enters the dispatcher.     *)
(***************************************************************************)
PlayerCommand(c, k) ==
    /\ pc[c] = "idle"
    /\ started < MaxCalls
    /\ started' = started + 1
    /\ kind' = [kind EXCEPT ![c] = k]
    /\ action' = [action EXCEPT ![c] = spotify]
    /\ log' = [log EXCEPT ![c] = <<>>]
    /\ discovered' = [discovered EXCEPT ![c] = NoDiscovery]
    /\ playing_speaker' = [playing_speaker EXCEPT ![c] = NoSpeaker]
    /\ socoArg' = [socoArg EXCEPT ![c] = NoSpeaker]
    /\ device_id' = [device_id EXCEPT ![c] = "None"]
    /\ pc' = [pc EXCEPT ![c] = "current_playback"]
    /\ response' = [response EXCEPT ![c] = "pending"]
    /\ message' = [message EXCEPT ![c] = "none"]
    /\ UNCHANGED <<spotify, token, scanVars, clock>>

(***************************************************************************)
(* spotify_action_with_soco_fallback, one action per collaborator call.    *)
(***************************************************************************)
\* CurrentPlayback without the test `playback_results is not None`
CurrentPlaybackIgnoresNone(c) ==
    /\ pc[c] = "current_playback"
    /\ \E out \in PlaybackOutcomes :
        /\ Logs(c, "current_playback", out)
        /\ IF out.exc # "none" THEN Ends(c, "raised")
           ELSE Goes(c, "spotify_action")
    /\ UNCHANGED <<spotify, token, started, kind, action, playing_speaker, discovered,
                   socoArg, device_id, scanVars, clock, message>>

\* CurrentPlayback with a refresh of an expired token before the query
CurrentPlaybackRenewsToken(c) ==
    /\ pc[c] = "current_playback"
    /\ token' = IF token.cached /\ token.expired
                THEN [cached |-> TRUE, access |-> token.access + 1, expired |-> FALSE]
                ELSE token
    /\ \E out \in PlaybackOutcomes :
        /\ Logs(c, "current_playback", out)
        /\ IF out.exc # "none" THEN Ends(c, "raised")
           ELSE IF out.val # "None" THEN Goes(c, "spotify_action")
           ELSE Ends(c, Failure)
    /\ UNCHANGED <<spotify, started, kind, action, playing_speaker, discovered,
                   socoArg, device_id, scanVars, clock, message>>

\* playback_results = spotify.current_playback(), outside any try
CurrentPlayback(c) ==
    /\ pc[c] = "current_playback"
    /\ \E out \in PlaybackOutcomes :
        /\ Logs(c, "current_playback", out)
        /\ IF out.exc # "none" THEN Ends(c, "raised")
           ELSE IF out.val # "None" THEN Goes(c, "spotify_action")
           ELSE Ends(c, Failure)
    /\ UNCHANGED <<spotify, token, started, kind, action, playing_speaker, discovered,
                   socoArg, device_id, scanVars, clock, message>>

\* AfterSpotifyAction with the retry started at once on 401, the refresh
\* left out
AfterSpotifyActionSkipsRefresh(c, out) ==
    IF out.exc = "none" THEN Ends(c, Success)
    ELSE IF out.exc # "SpotifyException" THEN Ends(c, "raised")
    ELSE IF out.http_status = Unauthorized THEN Goes(c, "retry")
    ELSE IF out.http_status = Forbidden THEN Goes(c, "find_playing_speaker")
    ELSE Ends(c, Failure)

\* AfterSpotifyAction with the success return missing: control falls into
\* the retry
AfterSpotifyActionFallsThrough(c, out) ==
    IF out.exc = "none" THEN Goes(c, "retry")
    ELSE IF out.exc # "SpotifyException" THEN Ends(c, "raised")
    ELSE IF out.http_status = Unauthorized THEN Goes(c, "refresh")
    ELSE IF out.http_status = Forbidden THEN Goes(c, "find_playing_speaker")
    ELSE Ends(c, Failure)

\* where the first spotify_action() leads
AfterSpotifyAction(c, out) ==
    IF out.exc = "none" THEN Ends(c, Success)
    ELSE IF out.exc # "SpotifyException" THEN Ends(c, "raised")
    ELSE IF out.http_status = Unauthorized THEN Goes(c, "refresh")
    ELSE IF out.http_status = Forbidden THEN Goes(c, "find_playing_speaker")
    ELSE Ends(c, Failure)

SpotifyAction(c) ==
    /\ pc[c] = "spotify_action"
    /\ \E out \in ActionOutcomes :
        /\ Logs(c, "spotify_action", out)
        /\ AfterSpotifyAction(c, out)
    /\ UNCHANGED <<spotify, token, started, kind, action, playing_speaker, discovered,
                   socoArg, device_id, scanVars, clock, message>>

\* RefreshAccessToken with a single-flight guard: a call skips the exchange
\* when the client was rebound since it bound its action
RefreshSingleFlight(c, force) ==
    /\ pc[c] = "refresh"
    /\ IF spotify # action[c]
       THEN /\ Goes(c, "retry")
            /\ UNCHANGED <<token, log>>
       ELSE IF ~token.cached
       THEN /\ Logs(c, "refresh", OtherException)
            /\ Ends(c, "raised")
            /\ UNCHANGED token
       ELSE \E out \in ExchangeOutcomes :
            /\ Logs(c, "refresh", out)
            /\ IF out.exc = "none"
               THEN /\ token' = [cached |-> TRUE, access |-> token.access + 1,
                                 expired |-> FALSE]
                    /\ Goes(c, "rebind")
               ELSE /\ UNCHANGED token
                    /\ Ends(c, "raised")
    /\ UNCHANGED <<spotify, started, kind, action, discovered, playing_speaker,
                   socoArg, device_id, scanVars, clock, message>>

\* RefreshAccessToken with a failed exchange swallowed: the client is
\* rebound and the action retried all the same
RefreshSwallowsFailure(c, force) ==
    /\ pc[c] = "refresh"
    /\ \E out \in ExchangeOutcomes :
        /\ Logs(c, "refresh", IF token.cached THEN out ELSE OtherException)
        /\ Goes(c, "rebind")
        /\ IF out.exc = "none" /\ token.cached
           THEN token' = [cached |-> TRUE, access |-> token.access + 1,
                          expired |-> FALSE]
           ELSE UNCHANGED token
    /\ UNCHANGED <<spotify, started, kind, action, playing_speaker, discovered,
                   socoArg,
                   device_id, scanVars, clock, message>>

(***************************************************************************)
(* refresh_spotify_token(force): the token exchange, then the rebinding of *)
(* the global client.  token_info is None when nothing is cached, and      *)
(* token_info["refresh_token"] then raises.                                *)
(***************************************************************************)
\* NeedsRefresh that refreshes whatever the token's state
NeedsRefreshAlways(force) == TRUE

NeedsRefresh(force) == force \/ ~token.cached \/ token.expired

RefreshAccessToken(c, force) ==
    /\ pc[c] = "refresh"
    /\ IF ~NeedsRefresh(force)
       THEN /\ Goes(c, "retry")
            /\ UNCHANGED <<token, log>>
       ELSE IF ~token.cached
       THEN /\ Logs(c, "refresh", OtherException)
            /\ Ends(c, "raised")
            /\ UNCHANGED token
       ELSE \E out \in ExchangeOutcomes :
            /\ Logs(c, "refresh", out)
            /\ IF out.exc = "none"
               THEN /\ token' = [cached |-> TRUE, access |-> token.access + 1,
                                 expired |-> FALSE]
                    /\ Goes(c, "rebind")
               ELSE /\ UNCHANGED token
                    /\ Ends(c, "raised")
    /\ UNCHANGED <<spotify, started, kind, action, playing_speaker, discovered,
                   socoArg,
                   device_id, scanVars, clock, message>>

\* spotify = spotipy.Spotify(auth_manager=auth_manager)
RebindClient(c) ==
    /\ pc[c] = "rebind"
    /\ spotify' = spotify + 1
    /\ Goes(c, "retry")
    /\ UNCHANGED <<token, started, kind, action, playing_speaker, discovered, socoArg,
                   device_id, log, scanVars, clock, message>>

\* RetryAction that tries the SoCo fallback when the retry is refused
RetryThenFallsBack(c) ==
    /\ pc[c] = "retry"
    /\ \E out \in ActionOutcomes :
        /\ Logs(c, "spotify_action", out)
        /\ IF out.exc = "none" THEN Ends(c, Success)
           ELSE IF out.http_status = Forbidden THEN Goes(c, "find_playing_speaker")
           ELSE Ends(c, Failure)
    /\ UNCHANGED <<spotify, token, started, kind, action, playing_speaker, discovered,
                   socoArg, device_id, scanVars, clock, message>>

\* RetryAction with a second 401 sent back to the refresh
RetryActionLoops(c) ==
    /\ pc[c] = "retry"
    /\ \E out \in ActionOutcomes :
        /\ Logs(c, "spotify_action", out)
        /\ IF out.exc = "none" THEN Ends(c, Success)
           ELSE IF out = SpotifyException(Unauthorized) THEN Goes(c, "refresh")
           ELSE Ends(c, Failure)
    /\ UNCHANGED <<spotify, token, started, kind, action, playing_speaker, discovered,
                   socoArg, device_id, scanVars, clock, message>>

\* RetryAction with the success return lost: the retry is reported as failed
\* whatever it did
RetryActionReportsFailure(c) ==
    /\ pc[c] = "retry"
    /\ \E out \in ActionOutcomes :
        /\ Logs(c, "spotify_action", out)
        /\ Ends(c, Failure)
    /\ UNCHANGED <<spotify, token, started, kind, action, playing_speaker, discovered,
                   socoArg, device_id, scanVars, clock, message>>

\* spotify_action()  # Retry once after refreshing
RetryAction(c) ==
    /\ pc[c] = "retry"
    /\ \E out \in ActionOutcomes :
        /\ Logs(c, "spotify_action", out)
        /\ IF out.exc = "none" THEN Ends(c, Success) ELSE Ends(c, Failure)
    /\ UNCHANGED <<spotify, token, started, kind, action, playing_speaker, discovered,
                   socoArg, device_id, scanVars, clock, message>>

\* playing_speaker = find_playing_speaker()
FindPlayingSpeaker(c) ==
    /\ pc[c] = "find_playing_speaker"
    /\ \E d \in FallbackDiscoveries :
        LET r == find_playing_speaker(d)
        IN  /\ discovered' = [discovered EXCEPT ![c] = d]
            /\ Logs(c, "find_playing_speaker",
                    IF r.kind = "raise" THEN OtherException ELSE Returns(r.kind))
            /\ CASE r.kind = "raise" ->
                      /\ Ends(c, "raised")
                      /\ UNCHANGED playing_speaker
                 [] r.kind = "none" ->
                      /\ Ends(c, Failure)
                      /\ UNCHANGED playing_speaker
                 [] OTHER ->
                      /\ Goes(c, "soco_action")
                      /\ playing_speaker' = [playing_speaker EXCEPT ![c] =
                             [idx |-> r.idx, speaker |-> d.speakers[r.idx]]]
    /\ UNCHANGED <<spotify, token, started, kind, action, socoArg, device_id,
                   scanVars, clock, message>>

\* SocoAction with the success return outside the try
SocoActionUnguarded(c) ==
    /\ pc[c] = "soco_action"
    /\ socoArg' = [socoArg EXCEPT ![c] = playing_speaker[c]]
    /\ \E out \in {Returns("ok"), OtherException} :
        /\ Logs(c, "soco_action", out)
        /\ Ends(c, Success)
    /\ UNCHANGED <<spotify, token, started, kind, action, playing_speaker, discovered,
                   device_id, scanVars, clock, message>>

\* soco_action(playing_speaker), then the log line reading player_name,
\* both inside the try
SocoAction(c) ==
    /\ pc[c] = "soco_action"
    /\ socoArg' = [socoArg EXCEPT ![c] = playing_speaker[c]]
    /\ \E out \in {Returns("ok"), OtherException} :
        /\ Logs(c, "soco_action", out)
        /\ IF out.exc = "none" /\ playing_speaker[c].speaker.name
           THEN Ends(c, Success)
           ELSE Ends(c, Failure)
    /\ UNCHANGED <<spotify, token, started, kind, action, playing_speaker, discovered,
                   device_id, scanVars, clock, message>>

(***************************************************************************)
(* What the command handlers send.  pause_track, skip_track and add_track  *)
(* pass the response on; an exception that leaves the call leaves the      *)
(* handler too, and nothing is sent.  now_playing sends the embed, or a    *)
(* fixed text for None.  add_slash and the dropdown callback call          *)
(* player_add_track(uri), drop what it returns and send a fixed text; their *)
(* except branch needs a SpotifyException, which player_add_track never    *)
(* lets out.                                                               *)
(***************************************************************************)
QueuedSelected == "Queued selected track!"
NothingPlaying == "Nothing is playing."

\* the call is player_add_track(uri) made by add_slash or the dropdown
ViaSlash(c) == kind[c] = "enqueue" /\ Count(log[c], "search") = 0

HandlerReply(c) ==
    IF kind[c] \notin {"pause", "skip", "enqueue", "now_playing"} THEN "none"
    ELSE IF ViaSlash(c) THEN QueuedSelected
    ELSE IF response[c] = "raised" THEN "none"
    ELSE IF kind[c] = "now_playing" /\ response[c] = NothingFound THEN NothingPlaying
    ELSE response[c]

\* the command handler takes the response (or the exception) and is done
Return(c) ==
    /\ pc[c] = "done"
    /\ pc' = [pc EXCEPT ![c] = "idle"]
    /\ message' = [message EXCEPT ![c] = HandlerReply(c)]
    /\ UNCHANGED <<spotify, token, started, kind, action, playing_speaker, discovered,
                   socoArg, device_id, response, log, scanVars, clock>>

(***************************************************************************)
(* The enqueue path.  player_add_item_to_playback_queue (the !add command) *)
(* searches and hands the top result to player_add_track; the /add command *)
(* calls player_add_track directly.  Every step reads the global `spotify` *)
(* and runs inside the function's try.                                     *)
(***************************************************************************)
DEFAULT_DEVICE == "Everywhere"

Queued        == "Queued"
StartedPlay   == "Started playback"
NoDevices     == "No available devices to start playback."
FailedToAdd   == "Failed to add track to queue."
NoResults     == "No search results."

\* a device of GET /me/player/devices; its id may be null ("None")
Devices == [name : {DEFAULT_DEVICE, "Kitchen"}, id : {"None", "dev1", "dev2"}]

DeviceLists == SeqsUpTo(Devices, MaxDevices)

\* the for loop over devices["devices"] with its break
RECURSIVE DefaultDeviceId(_, _)
DefaultDeviceId(devices, i) ==
    IF i > Len(devices) THEN "None"
    ELSE IF devices[i].name = DEFAULT_DEVICE THEN devices[i].id
    ELSE DefaultDeviceId(devices, i + 1)

\* ChooseDevice without the search for DEFAULT_DEVICE
ChooseDeviceFirstOnly(devices) ==
    IF devices # <<>> THEN devices[1].id ELSE "None"

\* device_id after the loop and the fall back to the first device found
ChooseDevice(devices) ==
    LET byName == DefaultDeviceId(devices, 1)
    IN  IF byName = "None" /\ devices # <<>> THEN devices[1].id ELSE byName

AddCommand(c, viaSearch) ==
    /\ pc[c] = "idle"
    /\ started < MaxCalls
    /\ started' = started + 1
    /\ kind' = [kind EXCEPT ![c] = "enqueue"]
    /\ action' = [action EXCEPT ![c] = spotify]
    /\ log' = [log EXCEPT ![c] = <<>>]
    /\ discovered' = [discovered EXCEPT ![c] = NoDiscovery]
    /\ playing_speaker' = [playing_speaker EXCEPT ![c] = NoSpeaker]
    /\ socoArg' = [socoArg EXCEPT ![c] = NoSpeaker]
    /\ device_id' = [device_id EXCEPT ![c] = "None"]
    /\ pc' = [pc EXCEPT ![c] = IF viaSearch THEN "search" ELSE "add_current_playback"]
    /\ response' = [response EXCEPT ![c] = "pending"]
    /\ message' = [message EXCEPT ![c] = "none"]
    /\ UNCHANGED <<spotify, token, scanVars, clock>>

\* search_results = spotify.search(q=query, limit=1, type="track")
Search(c) ==
    /\ pc[c] = "search"
    /\ \E out \in {Returns("track"), Returns("empty")} \cup Exceptions :
        /\ Logs(c, "search", out)
        /\ IF out.exc # "none" THEN Ends(c, FailedToAdd)
           ELSE IF out.val = "empty" THEN Ends(c, NoResults)
           ELSE Goes(c, "add_current_playback")
    /\ UNCHANGED <<spotify, token, started, kind, action, playing_speaker, discovered,
                   socoArg, device_id, scanVars, clock, message>>

\* AddCurrentPlayback that gives up when nothing is playing, as the
\* dispatcher of pause and skip does
AddCurrentPlaybackFailsOnNone(c) ==
    /\ pc[c] = "add_current_playback"
    /\ \E out \in PlaybackOutcomes :
        /\ Logs(c, "current_playback", out)
        /\ IF out.exc # "none" THEN Ends(c, FailedToAdd)
           ELSE IF out.val # "None" THEN Goes(c, "add_to_queue")
           ELSE Ends(c, FailedToAdd)
    /\ UNCHANGED <<spotify, token, started, kind, action, playing_speaker, discovered,
                   socoArg, device_id, scanVars, clock, message>>

\* player_add_track: playback_results = spotify.current_playback()
AddCurrentPlayback(c) ==
    /\ pc[c] = "add_current_playback"
    /\ \E out \in PlaybackOutcomes :
        /\ Logs(c, "current_playback", out)
        /\ IF out.exc # "none" THEN Ends(c, FailedToAdd)
           ELSE IF out.val # "None" THEN Goes(c, "add_to_queue")
           ELSE Goes(c, "devices")
    /\ UNCHANGED <<spotify, token, started, kind, action, playing_speaker, discovered,
                   socoArg, device_id, scanVars, clock, message>>

\* spotify.add_to_queue(uri)
AddToQueue(c) ==
    /\ pc[c] = "add_to_queue"
    /\ \E out \in ActionOutcomes :
        /\ Logs(c, "add_to_queue", out)
        /\ IF out.exc = "none" THEN Ends(c, Queued) ELSE Ends(c, FailedToAdd)
    /\ UNCHANGED <<spotify, token, started, kind, action, playing_speaker, discovered,
                   socoArg, device_id, scanVars, clock, message>>

\* devices = spotify.devices() and the choice of device_id
ListDevices(c) ==
    /\ pc[c] = "devices"
    /\ \/ \E out \in Exceptions :
            /\ Logs(c, "devices", out)
            /\ Ends(c, FailedToAdd)
            /\ UNCHANGED device_id
       \/ \E devices \in DeviceLists :
            LET chosen == ChooseDevice(devices)
            IN  /\ Logs(c, "devices", Returns(devices))
                /\ device_id' = [device_id EXCEPT ![c] = chosen]
                /\ IF chosen # "None"
                   THEN Goes(c, "start_playback")
                   ELSE Ends(c, NoDevices)
    /\ UNCHANGED <<spotify, token, started, kind, action, playing_speaker, discovered,
                   socoArg, scanVars, clock, message>>

\* spotify.start_playback(device_id=device_id, uris=[uri])
StartPlayback(c) ==
    /\ pc[c] = "start_playback"
    /\ \E out \in ActionOutcomes :
        /\ Logs(c, "start_playback", out)
        /\ IF out.exc = "none" THEN Ends(c, StartedPlay) ELSE Ends(c, FailedToAdd)
    /\ UNCHANGED <<spotify, token, started, kind, action, playing_speaker, discovered,
                   socoArg, device_id, scanVars, clock, message>>

(***************************************************************************)
(* get_now_playing_embed (the playing command): the cloud status first,    *)
(* inside a try that catches every Exception; then the classifier and the  *)
(* queries on the speaker it returned, inside a second try.  The response  *)
(* is the kind of embed returned, or "None".                               *)
(***************************************************************************)
\* what the code reads from playback["item"] without a default
ItemKeys == {"artists", "name", "album", "images", "external_urls", "duration_ms"}

\* a playback object: the keys its item holds (None and {} are both the
\* empty set: `not item`), whether progress_ms is a number, and the value
\* under "device": a dict, absent, or null
Playbacks == [item : SUBSET ItemKeys, progress_ms : BOOLEAN,
              device : {"dict", "absent", "None"}]

NoPlayback == [item |-> {}, progress_ms |-> FALSE, device |-> "absent"]

\* spotify.current_playback() as get_now_playing_embed sees it
CloudReplies ==
    { [out |-> e, playback |-> NoPlayback] :
          e \in {SpotifyException(Unauthorized), OtherException, Returns("None")} }
        \cup { [out |-> Returns("playback"), playback |-> p] : p \in Playbacks }

\* how the first try ends: "raise" (the query raised), "None", "no item",
\* "incomplete" (a subscript, .get on null or the arithmetic raised), or
\* "complete" (the embed is built)
CloudResult(r) ==
    IF r.out.exc # "none" THEN "raise"
    ELSE IF r.out.val = "None" THEN "None"
    ELSE IF r.playback.item = {} THEN "no item"
    ELSE IF r.playback.item # ItemKeys THEN "incomplete"
    ELSE IF ~r.playback.progress_ms THEN "incomplete"
    ELSE IF r.playback.device = "None" THEN "incomplete"
    ELSE "complete"

NowPlayingCommand(c) ==
    /\ pc[c] = "idle"
    /\ started < MaxCalls
    /\ started' = started + 1
    /\ kind' = [kind EXCEPT ![c] = "now_playing"]
    /\ action' = [action EXCEPT ![c] = spotify]
    /\ log' = [log EXCEPT ![c] = <<>>]
    /\ discovered' = [discovered EXCEPT ![c] = NoDiscovery]
    /\ playing_speaker' = [playing_speaker EXCEPT ![c] = NoSpeaker]
    /\ socoArg' = [socoArg EXCEPT ![c] = NoSpeaker]
    /\ device_id' = [device_id EXCEPT ![c] = "None"]
    /\ pc' = [pc EXCEPT ![c] = "np_current_playback"]
    /\ response' = [response EXCEPT ![c] = "pending"]
    /\ message' = [message EXCEPT ![c] = "none"]
    /\ UNCHANGED <<spotify, token, scanVars, clock>>

\* NpAfterCloud with `return embed` missing from the first try
NpAfterCloudFallsThrough(c, result) ==
    Goes(c, "np_find_playing_speaker")

\* `return embed` at the end of the first try, or on to the fallback
NpAfterCloud(c, result) ==
    IF result = "complete"
    THEN Ends(c, RemoteSnapshot)
    ELSE Goes(c, "np_find_playing_speaker")

NpCurrentPlayback(c) ==
    /\ pc[c] = "np_current_playback"
    /\ \E r \in CloudReplies :
        /\ Logs(c, "current_playback",
                IF r.out = Returns("playback") THEN Returns(CloudResult(r)) ELSE r.out)
        /\ NpAfterCloud(c, CloudResult(r))
    /\ UNCHANGED <<spotify, token, started, kind, action, playing_speaker, discovered,
                   socoArg, device_id, scanVars, clock, message>>

\* speaker = find_playing_speaker(), inside the second try
NpFindPlayingSpeaker(c) ==
    /\ pc[c] = "np_find_playing_speaker"
    /\ \E d \in FallbackDiscoveries :
        LET r == find_playing_speaker(d)
        IN  /\ discovered' = [discovered EXCEPT ![c] = d]
            /\ Logs(c, "find_playing_speaker",
                    IF r.kind = "raise" THEN OtherException ELSE Returns(r.kind))
            /\ IF r.kind = "found"
               THEN /\ Goes(c, "np_track_info")
                    /\ playing_speaker' = [playing_speaker EXCEPT ![c] =
                           [idx |-> r.idx, speaker |-> d.speakers[r.idx]]]
               ELSE /\ Ends(c, NothingFound)
                    /\ UNCHANGED playing_speaker
    /\ UNCHANGED <<spotify, token, started, kind, action, socoArg, device_id,
                   scanVars, clock, message>>

\* NpTrackInfo outside the second try
NpTrackInfoUnguarded(c) ==
    /\ pc[c] = "np_track_info"
    /\ \E out \in {Returns("ok"), OtherException} :
        /\ Logs(c, "get_current_track_info", out)
        /\ IF out.exc = "none"
           THEN Goes(c, "np_transport_info")
           ELSE Ends(c, "raised")
    /\ UNCHANGED <<spotify, token, started, kind, action, playing_speaker, discovered,
                   socoArg, device_id, scanVars, clock, message>>

\* track_info = speaker.get_current_track_info(), queried again
NpTrackInfo(c) ==
    /\ pc[c] = "np_track_info"
    /\ \E out \in {Returns("ok"), OtherException} :
        /\ Logs(c, "get_current_track_info", out)
        /\ IF out.exc = "none"
           THEN Goes(c, "np_transport_info")
           ELSE Ends(c, NothingFound)
    /\ UNCHANGED <<spotify, token, started, kind, action, playing_speaker, discovered,
                   socoArg, device_id, scanVars, clock, message>>

\* speaker.get_current_transport_info(), then speaker.player_name and the
\* embed
NpTransportInfo(c) ==
    /\ pc[c] = "np_transport_info"
    /\ \E out \in {Returns("ok"), OtherException} :
        /\ Logs(c, "get_current_transport_info", out)
        /\ IF out.exc = "none" /\ playing_speaker[c].speaker.name
           THEN Ends(c, LocalSnapshot)
           ELSE Ends(c, NothingFound)
    /\ UNCHANGED <<spotify, token, started, kind, action, playing_speaker, discovered,
                   socoArg, device_id, scanVars, clock, message>>

Snapshot(c) ==
    \/ NowPlayingCommand(c)
    \/ NpCurrentPlayback(c)
    \/ NpFindPlayingSpeaker(c)
    \/ NpTrackInfo(c)
    \/ NpTransportInfo(c)

Dispatch(c) ==
    \/ \E k \in {"pause", "skip"} : PlayerCommand(c, k)
    \/ CurrentPlayback(c)
    \/ SpotifyAction(c)
    \/ RefreshAccessToken(c, TRUE)
    \/ RebindClient(c)
    \/ RetryAction(c)
    \/ FindPlayingSpeaker(c)
    \/ SocoAction(c)
    \/ Return(c)

Enqueue(c) ==
    \/ \E viaSearch \in BOOLEAN : AddCommand(c, viaSearch)
    \/ Search(c)
    \/ AddCurrentPlayback(c)
    \/ AddToQueue(c)
    \/ ListDevices(c)
    \/ StartPlayback(c)

Next == \E c \in {1} : Dispatch(c) \/ Enqueue(c) \/ Snapshot(c)

Spec == Init /\ [][Next]_vars

(***************************************************************************)
(* What a call did, read off its log.                                      *)
(***************************************************************************)
N(c, op) == Count(log[c], op)

Outs(c, op) == SelectSeq(log[c], LAMBDA e : e.op = op)

\* the outcome of the n-th call of op made by call c
Out(c, op, n) == Outs(c, op)[n].out

IsDispatch(c) == kind[c] \in {"pause", "skip"}

Done(c) == pc[c] = "done"

SessionReported(c) ==
    /\ N(c, "current_playback") >= 1
    /\ Out(c, "current_playback", 1) = Returns("playback")

NoSession(c) ==
    /\ N(c, "current_playback") >= 1
    /\ Out(c, "current_playback", 1) = Returns("None")

FirstActionRaised(c, status) ==
    /\ IsDispatch(c)
    /\ SessionReported(c)
    /\ N(c, "spotify_action") >= 1
    /\ Out(c, "spotify_action", 1) = SpotifyException(status)

NoFallback(c) == N(c, "find_playing_speaker") = 0 /\ N(c, "soco_action") = 0

(***************************************************************************)
(* C1, as stated: a pause/skip call whose first spotify_action() raised    *)
(* 401 has, when it ends, refreshed once and invoked spotify_action        *)
(* exactly twice, answers Success if the retry returned and Failure if it  *)
(* raised, and never used the classifier or the SoCo action.               *)
(***************************************************************************)
C1_AsStated ==
    \A c \in Calls :
        FirstActionRaised(c, Unauthorized) /\ Done(c) =>
            /\ N(c, "refresh") = 1
            /\ N(c, "spotify_action") = 2
            /\ response[c] = IF Out(c, "spotify_action", 2).exc = "none"
                             THEN Success ELSE Failure
            /\ NoFallback(c)

(***************************************************************************)
(* C1, amended: after a first 401 the forced refresh is invoked exactly    *)
(* once; if it completes, spotify_action is invoked exactly once more      *)
(* (never a third time) and the call answers Success if that retry         *)
(* returned and Failure if it raised for any reason; if the refresh fails, *)
(* spotify_action is not invoked again and the refresh error leaves the    *)
(* call.  In no case is the classifier or the SoCo action invoked.         *)
(***************************************************************************)
C1_RefreshThenRetryOnce ==
    \A c \in Calls :
        FirstActionRaised(c, Unauthorized) =>
            /\ N(c, "refresh") <= 1
            /\ N(c, "spotify_action") <= 2
            /\ NoFallback(c)
            /\ Done(c) =>
                /\ N(c, "refresh") = 1
                /\ IF Out(c, "refresh", 1).exc = "none"
                   THEN /\ N(c, "spotify_action") = 2
                        /\ response[c] = IF Out(c, "spotify_action", 2).exc = "none"
                                         THEN Success ELSE Failure
                   ELSE /\ N(c, "spotify_action") = 1
                        /\ response[c] = "raised"

\* a retry that was refused with 403 ended the call in Failure
C1_Witness ==
    \E c \in Calls :
        /\ FirstActionRaised(c, Unauthorized)
        /\ Done(c)
        /\ N(c, "spotify_action") = 2
        /\ Out(c, "spotify_action", 2) = SpotifyException(Forbidden)
        /\ response[c] = Failure

C3_NoSessionFails ==
    \A c \in Calls :
        IsDispatch(c) /\ NoSession(c) =>
            /\ response[c] = Failure
            /\ Len(log[c]) = 1

C3_Witness ==
    \E c \in Calls : IsDispatch(c) /\ NoSession(c) /\ Done(c)

(***************************************************************************)
(* C4, as stated: every pause/skip call ends in Success or Failure; no     *)
(* exception leaves it.                                                    *)
(***************************************************************************)
C4_AsStated ==
    \A c \in Calls :
        IsDispatch(c) /\ Done(c) => response[c] \in {Success, Failure}

(***************************************************************************)
(* C5, as stated: a pause/skip call whose first spotify_action() failed    *)
(* with anything but a 401 or a 403 answers Failure and made no further    *)
(* collaborator call.                                                      *)
(***************************************************************************)
C5_AsStated ==
    \A c \in Calls :
        /\ IsDispatch(c)
        /\ Done(c)
        /\ SessionReported(c)
        /\ N(c, "spotify_action") >= 1
        /\ Out(c, "spotify_action", 1).exc # "none"
        /\ Out(c, "spotify_action", 1) \notin
               {SpotifyException(Unauthorized), SpotifyException(Forbidden)}
        => response[c] = Failure /\ Len(log[c]) = 2

(***************************************************************************)
(* C6: a pause/skip call whose first spotify_action() returned answers     *)
(* Success, invoked spotify_action exactly once, and invoked neither the   *)
(* classifier, nor the SoCo action, nor the refresh.                       *)
(***************************************************************************)
C6_RemoteSuccess ==
    \A c \in Calls :
        /\ IsDispatch(c)
        /\ SessionReported(c)
        /\ N(c, "spotify_action") >= 1
        /\ Out(c, "spotify_action", 1) = Returns("ok")
        => /\ response[c] = Success
           /\ N(c, "spotify_action") = 1
           /\ N(c, "refresh") = 0
           /\ NoFallback(c)

C6_Witness ==
    \E c \in Calls :
        /\ IsDispatch(c)
        /\ Done(c)
        /\ SessionReported(c)
        /\ N(c, "spotify_action") = 1
        /\ Out(c, "spotify_action", 1) = Returns("ok")

(***************************************************************************)
(* C7, as stated: an enqueue follows the decision tree of pause and skip:  *)
(* no session ends it in failure with no strategy invoked, a 401 from the  *)
(* remote call brings one forced refresh and one retry, a 403 brings the   *)
(* classifier.                                                             *)
(***************************************************************************)
AddToQueueRaised(c, status) ==
    /\ kind[c] = "enqueue"
    /\ N(c, "add_to_queue") >= 1
    /\ Out(c, "add_to_queue", 1) = SpotifyException(status)

RefreshFailed(c) ==
    /\ IsDispatch(c)
    /\ N(c, "refresh") >= 1
    /\ Out(c, "refresh", 1).exc # "none"

C8_RefreshFailureIsFatal ==
    \A c \in Calls :
        RefreshFailed(c) =>
            /\ pc[c] \in {"done", "idle"}
            /\ N(c, "spotify_action") = 1
            /\ N(c, "refresh") = 1
            /\ NoFallback(c)
            /\ response[c] # Success
            /\ spotify = action[c]

\* the exchange itself raised, with a token in the cache
C8_Witness ==
    \E c \in Calls : RefreshFailed(c) /\ Done(c) /\ token.cached

(***************************************************************************)
(* The classifier on its own: Init draws what discovery yields and         *)
(* Classify runs the scan on it.                                           *)
(***************************************************************************)
ScanInit ==
    /\ scanInput \in Discoveries
    /\ scanOutput = NoneFound({})
    /\ scanDone = FALSE
    /\ spotify = 0
    /\ token = NoToken
    /\ started = 0
    /\ pc = [c \in Calls |-> "idle"]
    /\ kind = [c \in Calls |-> "none"]
    /\ action = [c \in Calls |-> 0]
    /\ discovered = [c \in Calls |-> NoDiscovery]
    /\ playing_speaker = [c \in Calls |-> NoSpeaker]
    /\ socoArg = [c \in Calls |-> NoSpeaker]
    /\ device_id = [c \in Calls |-> "None"]
    /\ response = [c \in Calls |-> "pending"]
    /\ log = [c \in Calls |-> <<>>]
    /\ message = [c \in Calls |-> "none"]
    /\ clock = ClockIdle

Classify ==
    /\ ~scanDone
    /\ scanOutput' = find_playing_speaker(scanInput)
    /\ scanDone' = TRUE
    /\ UNCHANGED <<scanInput, spotify, token, started, callVars, clock>>

ScanNext == Classify

SpecScan == ScanInit /\ [][ScanNext]_vars


(***************************************************************************)
(* What the classifier is to compute.  A speaker qualifies when it is in   *)
(* the playing transport state and its track matches one of the three      *)
(* patterns; a speaker fails when its transport-state query raises or,     *)
(* being in the playing state, its track-info query raises.                *)
(***************************************************************************)
Qualifies(sp) ==
    /\ sp.state = "PLAYING"
    /\ sp.info # ERR
    /\ \/ Contains(sp.info.uri, NativeTag)
       \/ StartsWith(sp.info.uri, VliTag) /\ Contains(sp.info.uri, CloudRef)
       \/ Contains(sp.info.metadata, NativeTag)

QueryFails(sp) == sp.state = "ERR" \/ (sp.state = "PLAYING" /\ sp.info = ERR)

Reachable(speakers) == SelectSeq(speakers, LAMBDA sp : ~QueryFails(sp))

(***************************************************************************)
(* C9: when the classifier returns, it returns the first speaker in        *)
(* discovery order that qualifies, whichever pattern it matched, and it    *)
(* returns None exactly when discovery is empty or no speaker qualifies; a *)
(* speaker that is not playing is never returned.                          *)
(***************************************************************************)
C9_FirstQualifyingSpeaker ==
    scanDone /\ scanOutput.kind # "raise" =>
        LET speakers == scanInput.speakers
        IN  /\ scanOutput.kind = "found" =>
                /\ scanOutput.idx \in 1..Len(speakers)
                /\ Qualifies(speakers[scanOutput.idx])
                /\ \A j \in 1..(scanOutput.idx - 1) : ~Qualifies(speakers[j])
            /\ scanOutput.kind = "none" <=>
                   ~\E i \in 1..Len(speakers) : Qualifies(speakers[i])

\* a speaker matching only by line-in is returned ahead of a later speaker
\* playing the native stream
C9_Witness ==
    /\ scanDone
    /\ scanOutput.kind = "found"
    /\ scanOutput.idx = 1
    /\ Len(scanInput.speakers) = 2
    /\ ~UriMatch(scanInput.speakers[1].info.uri)
    /\ ~MetadataMatch(scanInput.speakers[1].info.metadata)
    /\ scanInput.speakers[2].state = "PLAYING"
    /\ scanInput.speakers[2].info # ERR
    /\ UriMatch(scanInput.speakers[2].info.uri)

(***************************************************************************)
(* C10, as stated: whenever discovery returned and the only queries that   *)
(* fail are transport-state and track-info queries (and name reads of the  *)
(* speakers whose query failed), no exception leaves the classifier, every *)
(* speaker up to the returned one is examined, and the result is the       *)
(* result of scanning the list without the failing speakers.               *)
(***************************************************************************)
C10_AsStated ==
    /\ scanDone
    /\ scanInput.ok
    /\ \A i \in 1..Len(scanInput.speakers) :
           ~scanInput.speakers[i].name => QueryFails(scanInput.speakers[i])
    => LET speakers == scanInput.speakers
           expected == find_playing_speaker([ok |-> TRUE, speakers |-> Reachable(speakers)])
       IN  /\ scanOutput.kind # "raise"
           /\ scanOutput.kind = expected.kind
           /\ scanOutput.kind = "found" =>
                  speakers[scanOutput.idx] = Reachable(speakers)[expected.idx]
           /\ scanOutput.examined =
                  1..(IF scanOutput.kind = "found" THEN scanOutput.idx ELSE Len(speakers))

(***************************************************************************)
(* refresh_spotify_token(force) called on its own, with either value of    *)
(* force, while the cached token may expire as time passes.                *)
(***************************************************************************)
RefreshKinds == {"refresh_forced", "refresh_if_expired"}

RefreshCommand(c, force) ==
    /\ pc[c] = "idle"
    /\ started < MaxCalls
    /\ started' = started + 1
    /\ kind' = [kind EXCEPT ![c] =
                   IF force THEN "refresh_forced" ELSE "refresh_if_expired"]
    /\ action' = [action EXCEPT ![c] = spotify]
    /\ log' = [log EXCEPT ![c] = <<>>]
    /\ discovered' = [discovered EXCEPT ![c] = NoDiscovery]
    /\ playing_speaker' = [playing_speaker EXCEPT ![c] = NoSpeaker]
    /\ socoArg' = [socoArg EXCEPT ![c] = NoSpeaker]
    /\ device_id' = [device_id EXCEPT ![c] = "None"]
    /\ pc' = [pc EXCEPT ![c] = "refresh"]
    /\ response' = [response EXCEPT ![c] = "pending"]
    /\ message' = [message EXCEPT ![c] = "none"]
    /\ UNCHANGED <<spotify, token, scanVars, clock>>

\* the body of refresh_spotify_token with the force it was called with
RefreshBody(c) ==
    /\ kind[c] \in RefreshKinds
    /\ RefreshAccessToken(c, kind[c] = "refresh_forced")

RefreshRebinds(c) ==
    /\ kind[c] \in RefreshKinds
    /\ RebindClient(c)

\* refresh_spotify_token returns None
RefreshReturns(c) ==
    /\ kind[c] \in RefreshKinds
    /\ pc[c] = "retry"
    /\ Ends(c, "None")
    /\ UNCHANGED <<spotify, token, started, kind, action, discovered,
                   playing_speaker, socoArg, device_id, log, scanVars, clock,
                   message>>

\* time passes: auth_manager.is_token_expired(token_info) becomes true
TokenExpires ==
    /\ token.cached
    /\ ~token.expired
    /\ token' = [token EXCEPT !.expired = TRUE]
    /\ UNCHANGED <<spotify, started, callVars, scanVars, clock>>

RefreshNext ==
    \/ \E force \in BOOLEAN : RefreshCommand(1, force)
    \/ RefreshBody(1)
    \/ RefreshRebinds(1)
    \/ RefreshReturns(1)
    \/ Return(1)
    \/ TokenExpires

SpecRefresh == Init /\ [][RefreshNext]_vars

(***************************************************************************)
(* C11: with a token in the cache, refresh_spotify_token(force) makes the  *)
(* token exchange if and only if force is true or the cached token is      *)
(* expired, and a call that returns has replaced the client handle if and  *)
(* only if it made the exchange; otherwise it is a no-op: no exchange, the *)
(* token and the client handle unchanged.  So a refresh(force=false) on a  *)
(* token that is not expired, however often repeated, and one directly     *)
(* after a successful refresh, exchanges nothing.                          *)
(***************************************************************************)
C11_RefreshIffForcedOrExpired ==
    [][\A c \in Calls :
          /\ (kind[c] \in RefreshKinds /\ pc[c] = "refresh" /\ pc'[c] # "refresh"
                 /\ token.cached) =>
                IF kind[c] = "refresh_forced" \/ token.expired
                THEN /\ Count(log'[c], "refresh") = 1
                     /\ \/ /\ pc'[c] = "rebind"
                           /\ token'.access = token.access + 1
                           /\ ~token'.expired
                        \/ /\ response'[c] = "raised"
                           /\ token' = token
                ELSE /\ log'[c] = <<>>
                     /\ token' = token
                     /\ spotify' = spotify
                     /\ pc'[c] = "retry"
          /\ (kind[c] \in RefreshKinds /\ pc[c] = "retry" /\ pc'[c] = "done") =>
                /\ response'[c] = "None"
                /\ spotify' = action[c] + Count(log[c], "refresh")
                /\ token' = token
      ]_vars

\* a refresh(force=false) directly after a successful forced refresh did
\* nothing
C11_Witness ==
    /\ kind[1] = "refresh_if_expired"
    /\ pc[1] = "done"
    /\ response[1] = "None"
    /\ log[1] = <<>>
    /\ token.access = 1
    /\ ~token.expired
    /\ spotify = 1

(***************************************************************************)
(* Two pause/skip commands at once: the command handlers hand them to the  *)
(* executor's worker threads, whose steps interleave at the collaborator   *)
(* calls.                                                                  *)
(***************************************************************************)
\* a step of worker c on the paths that touch the shared token and client:
\* the environment of these runs never answers 403
ConcStep(c) ==
    \/ \E k \in {"pause", "skip"} : PlayerCommand(c, k)
    \/ CurrentPlayback(c)
    \/ SpotifyAction(c) /\ pc'[c] # "find_playing_speaker"
    \/ RefreshAccessToken(c, TRUE)
    \/ RebindClient(c)
    \/ RetryAction(c)
    \/ Return(c)

ConcNext == \E c \in Calls : ConcStep(c)

SpecConc == Init /\ [][ConcNext]_vars

\* the client handle is the one made after the latest token exchange
HandleMatchesToken == spotify = token.access

\* worker c is about to evaluate spotify.current_playback(): it reads the
\* global `spotify`
ReadsClient(c) == pc[c] = "current_playback"

(***************************************************************************)
(* C12, as stated: whenever a call is about to read the client, the client *)
(* handle and the credential belong together: no reader sees the new       *)
(* credential with the old client handle, or the reverse.                  *)
(***************************************************************************)
C12_AsStated ==
    \A c \in Calls : ReadsClient(c) => HandleMatchesToken

(***************************************************************************)
(* C17, as stated: when both concurrent calls got 401 on their first       *)
(* spotify_action() and have ended, each made its own forced refresh and   *)
(* exactly one retry and ended in Success or Failure, and the shared state *)
(* is a valid token with the client handle made from it.                   *)
(***************************************************************************)
Both401 == \A c \in Calls : FirstActionRaised(c, Unauthorized)

C17_AsStated ==
    Both401 /\ (\A c \in Calls : Done(c)) =>
        /\ \A c \in Calls :
               /\ N(c, "refresh") = 1
               /\ N(c, "spotify_action") = 2
               /\ response[c] \in {Success, Failure}
        /\ token.cached
        /\ ~token.expired
        /\ HandleMatchesToken

(***************************************************************************)
(* C17, amended: when both concurrent calls got 401 on their first         *)
(* spotify_action(), under every interleaving each makes its own forced    *)
(* refresh (none is skipped because the other call refreshed); each call   *)
(* whose refresh completes makes exactly one retry and ends in Success or  *)
(* Failure, and a call whose refresh fails makes no retry and ends with    *)
(* the error raised; once both have ended, the client handle is the one    *)
(* made after the latest exchange, and if a refresh completed the token is *)
(* a valid one.                                                            *)
(***************************************************************************)
C17_RedundantRefreshes ==
    Both401 =>
        /\ \A c \in Calls :
               /\ N(c, "refresh") <= 1
               /\ N(c, "spotify_action") <= 2
               /\ Done(c) =>
                   /\ N(c, "refresh") = 1
                   /\ IF Out(c, "refresh", 1).exc = "none"
                      THEN /\ N(c, "spotify_action") = 2
                           /\ response[c] \in {Success, Failure}
                           /\ token.cached
                           /\ ~token.expired
                           /\ token.access >= 1
                      ELSE /\ N(c, "spotify_action") = 1
                           /\ response[c] = "raised"
        /\ (\A c \in Calls : Done(c)) => HandleMatchesToken

\* both calls bound their action before either refresh rebound the client,
\* both refreshed and retried: two exchanges, two clients made
C17_Witness ==
    /\ Both401
    /\ \A c \in Calls :
           /\ Done(c)
           /\ action[c] = 0
           /\ N(c, "refresh") = 1
           /\ Out(c, "refresh", 1).exc = "none"
           /\ N(c, "spotify_action") = 2
    /\ token.access = 2
    /\ spotify = 2

(***************************************************************************)
(* get_now_playing_embed, read off the call's log.                         *)
(***************************************************************************)
IsSnapshot(c) == kind[c] = "now_playing"

Ended(c) == pc[c] \in {"done", "idle"} /\ response[c] # "pending"

\* the cloud path gave a session with a complete item
CloudComplete(c) ==
    /\ N(c, "current_playback") = 1
    /\ Out(c, "current_playback", 1) = Returns("complete")

\* the cloud path failed: the query raised, or gave no session, or a
\* session without a usable item
CloudFailed(c) ==
    /\ N(c, "current_playback") = 1
    /\ Out(c, "current_playback", 1) # Returns("complete")

\* the local path gave no device, or failed
LocalFailed(c) ==
    /\ N(c, "find_playing_speaker") = 1
    /\ \/ Out(c, "find_playing_speaker", 1) # Returns("found")
       \/ /\ N(c, "get_current_track_info") = 1
          /\ Out(c, "get_current_track_info", 1).exc # "none"
       \/ /\ N(c, "get_current_transport_info") = 1
          /\ Out(c, "get_current_transport_info", 1).exc # "none"

(***************************************************************************)
(* C13: get_now_playing_embed never raises: whatever the cloud query, the  *)
(* classifier and the speaker's track and transport queries do, it returns *)
(* an embed or None; and it returns None exactly when the cloud path gave  *)
(* no usable session and the local path gave no device or failed.          *)
(***************************************************************************)
C13_SnapshotNeverRaises ==
    \A c \in Calls :
        IsSnapshot(c) /\ Ended(c) =>
            /\ response[c] \in {RemoteSnapshot, LocalSnapshot, NothingFound}
            /\ response[c] = NothingFound <=> CloudFailed(c) /\ LocalFailed(c)

\* the cloud query raised, the classifier returned a speaker, and its
\* transport query then failed
C13_Witness ==
    /\ IsSnapshot(1)
    /\ pc[1] = "done"
    /\ response[1] = NothingFound
    /\ Out(1, "current_playback", 1).exc # "none"
    /\ N(1, "find_playing_speaker") = 1
    /\ Out(1, "find_playing_speaker", 1) = Returns("found")
    /\ N(1, "get_current_transport_info") = 1
    /\ Out(1, "get_current_transport_info", 1) = OtherException

(***************************************************************************)
(* C14: get_now_playing_embed queries the cloud status first and calls the *)
(* classifier only after the cloud path failed (the query raised, gave no  *)
(* session, or a session without a usable item); when the cloud gives a    *)
(* session with a complete item the embed returned is the Remote one and   *)
(* no discovery and no speaker query is made.                              *)
(***************************************************************************)
C14_CloudFirst ==
    \A c \in Calls :
        IsSnapshot(c) =>
            /\ log[c] # <<>> => log[c][1].op = "current_playback"
            /\ N(c, "current_playback") <= 1
            /\ N(c, "find_playing_speaker") >= 1 => CloudFailed(c)
            /\ pc[c] \in {"np_find_playing_speaker", "np_track_info",
                          "np_transport_info"} => CloudFailed(c)
            /\ CloudComplete(c) /\ Ended(c) =>
                /\ response[c] = RemoteSnapshot
                /\ Len(log[c]) = 1
                /\ discovered[c] = NoDiscovery
                /\ playing_speaker[c] = NoSpeaker
            /\ response[c] = LocalSnapshot => CloudFailed(c)

C14_Witness ==
    /\ IsSnapshot(1)
    /\ pc[1] = "done"
    /\ CloudComplete(1)
    /\ response[1] = RemoteSnapshot
    /\ log[1] = <<Event("current_playback", Returns("complete"))>>

(***************************************************************************)
(* The progress line of the cloud embed: minutes and seconds of the two    *)
(* millisecond counters, computed as get_now_playing_embed computes them,  *)
(* and the text the f-string makes of them, one character per element.     *)
(***************************************************************************)
MsPerMinute == 60000
MsPerSecond == 1000

\* int(a / b): the quotient, truncated toward zero
IntTrunc(a, b) == IF a >= 0 THEN a \div b ELSE -((-a) \div b)

Minutes(ms) == IntTrunc(ms, MsPerMinute)

\* Seconds without the `% 60000`
SecondsOfTotal(ms) == IntTrunc(ms, MsPerSecond)

\* a % b takes the sign of b, as TLA+'s % does for a positive b
Seconds(ms) == IntTrunc(ms % MsPerMinute, MsPerSecond)

DigitChars == <<"0", "1", "2", "3", "4", "5", "6", "7", "8", "9">>

\* str(n) as the f-string renders an int
RECURSIVE Decimal(_)
Decimal(n) ==
    IF n < 0 THEN <<"-">> \o Decimal(-n)
    ELSE IF n < 10 THEN <<DigitChars[n + 1]>>
    ELSE Decimal(n \div 10) \o <<DigitChars[(n % 10) + 1]>>

\* format(n, "02d") for n >= 0: zero-padded to a width of at least two
Pad2(n) ==
    LET d == Decimal(n)
    IN  IF Len(d) < 2 THEN <<"0">> \o d ELSE d

TimeText(ms) == Decimal(Minutes(ms)) \o <<":">> \o Pad2(Seconds(ms))

DisplayLine(progress_ms, duration_ms) ==
    TimeText(progress_ms) \o <<" ", "/", " ">> \o TimeText(duration_ms)

\* the counters formatted: every second up to MaxMinutes minutes, at the
\* start, just after the start and at the end of the second
Millis ==
    { m * MsPerMinute + sec * MsPerSecond + r :
          m \in 0..MaxMinutes, sec \in 0..59, r \in {0, 1, 999} }

FormatClock ==
    /\ clock = ClockIdle
    /\ \E progress_ms \in Millis :
       \E duration_ms \in {progress_ms, 200000} :
           clock' = [progress_ms |-> progress_ms,
                     duration_ms |-> duration_ms,
                     text |-> DisplayLine(progress_ms, duration_ms)]
    /\ UNCHANGED <<spotify, token, started, callVars, scanVars>>

ClockNext == FormatClock

SpecClock == Init /\ [][ClockNext]_vars

IsDigit(ch) == \E i \in 1..10 : DigitChars[i] = ch

DigitValue(ch) == (CHOOSE i \in 1..10 : DigitChars[i] = ch) - 1

\* the number a run of digits denotes
RECURSIVE ValueOf(_)
ValueOf(digits) ==
    IF digits = <<>> THEN 0
    ELSE 10 * ValueOf(SubSeq(digits, 1, Len(digits) - 1))
             + DigitValue(digits[Len(digits)])

\* text t shows ms as minutes, a colon, and two digits of seconds
TimeShown(t, ms) ==
    LET n == Len(t)
    IN  /\ n >= 4
        /\ t[n - 2] = ":"
        /\ \A i \in (1..n) \ {n - 2} : IsDigit(t[i])
        /\ ValueOf(SubSeq(t, 1, n - 3)) = ms \div 60000
        /\ ValueOf(SubSeq(t, n - 1, n)) = (ms % 60000) \div 1000
        /\ (ms % 60000) \div 1000 \in 0..59

(***************************************************************************)
(* C15: for every non-negative millisecond counter in the range, elapsed   *)
(* or total, the minutes displayed are ms div 60000 and the seconds        *)
(* displayed are (ms mod 60000) div 1000, which lie in 0..59 and are       *)
(* rendered as two digits; 125000 ms of 200000 ms displays as 2:05 / 3:20. *)
(***************************************************************************)
C15_MinutesAndSeconds ==
    clock # ClockIdle =>
        /\ \E k \in 1..Len(clock.text) :
               /\ TimeShown(SubSeq(clock.text, 1, k), clock.progress_ms)
               /\ SubSeq(clock.text, k + 1, k + 3) = <<" ", "/", " ">>
               /\ TimeShown(SubSeq(clock.text, k + 4, Len(clock.text)),
                            clock.duration_ms)
        /\ clock.progress_ms = 125000 /\ clock.duration_ms = 200000 =>
               clock.text = <<"2", ":", "0", "5", " ", "/", " ", "3", ":", "2", "0">>

C15_Witness ==
    /\ clock.progress_ms = 125000
    /\ clock.duration_ms = 200000
    /\ clock.text = <<"2", ":", "0", "5", " ", "/", " ", "3", ":", "2", "0">>

(***************************************************************************)
(* The collaborator calls of a pause/skip call, in the order made.         *)
(***************************************************************************)
Ops(c) == [i \in 1..Len(log[c]) |-> log[c][i].op]

IsPrefix(s, t) == Len(s) <= Len(t) /\ s = SubSeq(t, 1, Len(s))

RefreshPath ==
    <<"current_playback", "spotify_action", "refresh", "spotify_action">>

FallbackPath ==
    <<"current_playback", "spotify_action", "find_playing_speaker", "soco_action">>

\* the i-th collaborator call of c returned
Returned(c, i) == log[c][i].out.exc = "none"

(***************************************************************************)
(* C16: within one pause/skip call the collaborator calls come one after   *)
(* the other in a fixed order: the status query, the first remote attempt, *)
(* then either the forced refresh and the retry, or the scan and the local *)
(* action.  The retry starts only after the refresh has completed, the     *)
(* local action only after the scan has returned a speaker, and the call   *)
(* stands at one step at a time, so at most one action is in flight.       *)
(***************************************************************************)
C16_StrictlySequential ==
    \A c \in Calls :
        IsDispatch(c) =>
            /\ IsPrefix(Ops(c), RefreshPath) \/ IsPrefix(Ops(c), FallbackPath)
            /\ Len(log[c]) >= 2 => log[c][1].out = Returns("playback")
            /\ Len(log[c]) >= 3 =>
                   log[c][2].out \in {SpotifyException(Unauthorized),
                                      SpotifyException(Forbidden)}
            /\ pc[c] \in {"rebind", "retry"} \/ N(c, "spotify_action") = 2 =>
                   /\ Len(log[c]) >= 3
                   /\ log[c][3].op = "refresh"
                   /\ Returned(c, 3)
                   /\ spotify > action[c] \/ pc[c] = "rebind"
            /\ pc[c] = "soco_action" \/ N(c, "soco_action") = 1 =>
                   /\ Len(log[c]) >= 3
                   /\ log[c][3] = Event("find_playing_speaker", Returns("found"))
                   /\ playing_speaker[c] # NoSpeaker
            /\ pc[c] \notin {"done", "idle"} =>
                   /\ \A i \in 1..Len(log[c]) :
                          \/ Returned(c, i)
                          \/ /\ i = 2
                             /\ log[c][i].out \in {SpotifyException(Unauthorized),
                                                   SpotifyException(Forbidden)}
                   /\ response[c] = "pending"

\* the refresh path, walked to its end
C16_Witness ==
    /\ IsDispatch(1)
    /\ pc[1] = "done"
    /\ Ops(1) = RefreshPath
    /\ Returned(1, 3)
    /\ spotify = action[1] + 1

(***************************************************************************)
(* C18: the shared token and the client handle change only in the refresh  *)
(* of a pause/skip call whose first spotify_action() raised 401: every     *)
(* step that changes either is the exchange or the rebinding made by such  *)
(* a call.  So a call that ends on the success, no-session, 403 or         *)
(* other-error branch, get_now_playing_embed and find_playing_speaker      *)
(* leave both as they were.                                                *)
(***************************************************************************)
C18_OnlyRefreshChangesSharedState ==
    [][\A c \in Calls :
          /\ spotify' # spotify \/ token' # token =>
                \E r \in Calls :
                    /\ IsDispatch(r)
                    /\ FirstActionRaised(r, Unauthorized)
                    /\ pc[r] \in {"refresh", "rebind"}
                    /\ pc'[r] # pc[r]
          /\ pc'[c] # pc[c] /\ ~(IsDispatch(c) /\ pc[c] \in {"refresh", "rebind"}) =>
                spotify' = spotify /\ token' = token]_vars

\* the second command of the run took the 403 branch to its end; token and
\* client are as they were at the start
C18_Witness ==
    /\ IsDispatch(1)
    /\ pc[1] = "done"
    /\ FirstActionRaised(1, Forbidden)
    /\ N(1, "soco_action") = 1
    /\ started = 2
    /\ spotify = 0
    /\ token = [cached |-> TRUE, access |-> 0, expired |-> TRUE]

(***************************************************************************)
(* C19: speakers are not kept from one classifier call to the next.  A     *)
(* call holds no speaker before its own find_playing_speaker(), which      *)
(* discovers afresh; the speaker returned to a pause/skip or snapshot call *)
(* and the one its soco_action receives is a member of the set discovered  *)
(* within that call, at the index the scan returned.                       *)
(***************************************************************************)
InOwnDiscovery(c, held) ==
    /\ discovered[c].ok
    /\ held.idx \in 1..Len(discovered[c].speakers)
    /\ held.speaker = discovered[c].speakers[held.idx]

C19_NoCachedSpeakers ==
    \A c \in Calls :
        /\ N(c, "find_playing_speaker") <= 1
        /\ N(c, "find_playing_speaker") = 0 =>
               /\ discovered[c] = NoDiscovery
               /\ playing_speaker[c] = NoSpeaker
               /\ socoArg[c] = NoSpeaker
        /\ playing_speaker[c] # NoSpeaker =>
               /\ Out(c, "find_playing_speaker", 1) = Returns("found")
               /\ InOwnDiscovery(c, playing_speaker[c])
        /\ socoArg[c] # NoSpeaker =>
               /\ socoArg[c] = playing_speaker[c]
               /\ InOwnDiscovery(c, socoArg[c])

\* the second command of the run acted on a speaker of its own discovery
C19_Witness ==
    /\ started = 2
    /\ IsDispatch(1)
    /\ pc[1] = "done"
    /\ N(1, "soco_action") = 1
    /\ socoArg[1] # NoSpeaker
    /\ InOwnDiscovery(1, socoArg[1])

(***************************************************************************)
(* The strategy invocations of a pause/skip call: spotify_action() and     *)
(* soco_action(speaker), in the order made.                                *)
(***************************************************************************)
Strategies(c) ==
    SelectSeq(log[c], LAMBDA e : e.op \in {"spotify_action", "soco_action"})

Applied(c) ==
    { i \in 1..Len(Strategies(c)) : Strategies(c)[i].out.exc = "none" }

C21_CallBudget ==
    \A c \in Calls :
        IsDispatch(c) =>
            /\ N(c, "spotify_action") <= 2
            /\ N(c, "spotify_action") = 2 => FirstActionRaised(c, Unauthorized)
            /\ N(c, "refresh") <= 1
            /\ N(c, "find_playing_speaker") <= 1
            /\ N(c, "refresh") = 0 \/ N(c, "find_playing_speaker") = 0
            /\ N(c, "soco_action") <= 1
            /\ N(c, "soco_action") = 1 => FirstActionRaised(c, Forbidden)
            /\ N(c, "current_playback") <= 1

\* the retry itself raised 401 and the call stopped there
C21_Witness ==
    /\ IsDispatch(1)
    /\ pc[1] = "done"
    /\ N(1, "spotify_action") = 2
    /\ Out(1, "spotify_action", 2) = SpotifyException(Unauthorized)
    /\ N(1, "refresh") = 1
    /\ N(1, "find_playing_speaker") = 0
    /\ response[1] = Failure

(***************************************************************************)
(* The client a call's spotify_action() goes through: spotify_action is    *)
(* the method spotify.next_track or spotify.pause_playback, bound to the   *)
(* object `spotify` named when the command started, and line 230 calls     *)
(* that same bound method again.                                           *)
(***************************************************************************)
RetryHandle(c) == action[c]

(***************************************************************************)
(* C22, as stated: once the forced refresh of a pause/skip call has        *)
(* rebound the client, the retry of that call goes through the new client, *)
(* the one `spotify` names now, and not through the client that was        *)
(* current when the call started.                                          *)
(***************************************************************************)
C22_AsStated ==
    \A c \in Calls :
        IsDispatch(c) /\ pc[c] = "retry" => RetryHandle(c) = spotify

(***************************************************************************)
(* C23, as stated: add_slash and the dropdown callback send the success    *)
(* text only if player_add_track queued the track or started playback;     *)
(* when the cloud rejected the request or no device was available the user *)
(* is not sent the success text.                                           *)
(***************************************************************************)
C23_AsStated ==
    \A c \in Calls :
        ViaSlash(c) /\ pc[c] = "idle" /\ response[c] # "pending" =>
            /\ message[c] = QueuedSelected => response[c] \in {Queued, StartedPlay}
            /\ response[c] \in {FailedToAdd, NoDevices} => message[c] # QueuedSelected

(***************************************************************************)
(* player_add_track, read off the call's log.                              *)
(***************************************************************************)
IsEnqueue(c) == kind[c] = "enqueue"

\* spotify.devices() returned, and what it listed
DevicesListed(c) ==
    /\ N(c, "devices") = 1
    /\ Out(c, "devices", 1).exc = "none"

Listed(c) == Out(c, "devices", 1).val

Named(devices) == { i \in 1..Len(devices) : devices[i].name = DEFAULT_DEVICE }

FirstNamed(devices) ==
    CHOOSE i \in Named(devices) : \A j \in Named(devices) : i <= j

\* a collaborator call of the enqueue (the search included) raised
CloudError(c) == \E i \in 1..Len(log[c]) : log[c][i].out.exc # "none"

(***************************************************************************)
(* C24, as stated: with a session reported the track is added to the queue *)
(* and playback is not started; with no session the track is not added and *)
(* playback is started on the listed device named DEFAULT_DEVICE, or, if   *)
(* none has that name, on the first listed device; with an empty list      *)
(* nothing is started and the no-devices text is returned; a cloud error   *)
(* in any step gives the fixed failure text and nothing is raised.         *)
(***************************************************************************)
C24_AsStated ==
    \A c \in Calls :
        IsEnqueue(c) /\ Ended(c) =>
            /\ response[c] # "raised"
            /\ CloudError(c) => response[c] = FailedToAdd
            /\ SessionReported(c) =>
                   /\ N(c, "add_to_queue") = 1
                   /\ N(c, "devices") = 0
                   /\ N(c, "start_playback") = 0
            /\ NoSession(c) =>
                   /\ N(c, "add_to_queue") = 0
                   /\ DevicesListed(c) =>
                       IF Listed(c) = <<>>
                       THEN N(c, "start_playback") = 0 /\ response[c] = NoDevices
                       ELSE /\ N(c, "start_playback") = 1
                            /\ device_id[c] =
                                   IF Named(Listed(c)) # {}
                                   THEN Listed(c)[FirstNamed(Listed(c))].id
                                   ELSE Listed(c)[1].id

\* the device the amended statement names: the first device named
\* DEFAULT_DEVICE if its id is not null, else the first device listed
Expected(devices) ==
    IF Named(devices) # {} /\ devices[FirstNamed(devices)].id # "None"
    THEN devices[FirstNamed(devices)].id
    ELSE IF devices # <<>> THEN devices[1].id
    ELSE "None"

(***************************************************************************)
(* C24, amended: with a session reported the track is added to the queue   *)
(* and playback is not started; with no session the track is not added and *)
(* the device chosen is the first listed device named DEFAULT_DEVICE if    *)
(* its id is not null, and otherwise the first listed device; playback is  *)
(* started on the chosen device if its id is not null, and if the list is  *)
(* empty or the chosen id is null nothing is started and the no-devices    *)
(* text is returned; a cloud error in any step gives the fixed failure     *)
(* text and nothing is raised.                                             *)
(***************************************************************************)
C24_EnqueueDecision ==
    \A c \in Calls :
        IsEnqueue(c) /\ Ended(c) =>
            /\ response[c] # "raised"
            /\ CloudError(c) <=> response[c] = FailedToAdd
            /\ SessionReported(c) =>
                   /\ N(c, "add_to_queue") = 1
                   /\ N(c, "devices") = 0
                   /\ N(c, "start_playback") = 0
                   /\ ~CloudError(c) => response[c] = Queued
            /\ NoSession(c) =>
                   /\ N(c, "add_to_queue") = 0
                   /\ N(c, "devices") = 1
                   /\ DevicesListed(c) =>
                       /\ device_id[c] = Expected(Listed(c))
                       /\ IF device_id[c] = "None"
                          THEN N(c, "start_playback") = 0 /\ response[c] = NoDevices
                          ELSE /\ N(c, "start_playback") = 1
                               /\ ~CloudError(c) => response[c] = StartedPlay

\* no session; the second device listed carries the default name and
\* playback was started on it
C24_Witness ==
    /\ IsEnqueue(1)
    /\ pc[1] = "done"
    /\ NoSession(1)
    /\ DevicesListed(1)
    /\ Len(Listed(1)) = 2
    /\ Named(Listed(1)) = {2}
    /\ device_id[1] = Listed(1)[2].id
    /\ N(1, "start_playback") = 1
    /\ response[1] = StartedPlay

====
